---- MODULE Spec2Model ----
(***************************************************************************)
(* A model of pytimefliplib's AsyncClient (src/pytimefliplib/              *)
(* async_client.py): the session object, the characteristic registry, the  *)
(* command codec and the operations built on them, run against a BLE       *)
(* transport (bleak's BleakClient) whose answers and failures are chosen   *)
(* nondeterministically.                                                   *)
(*                                                                         *)
(* Every method of AsyncClient is an operator from a context to a context. *)
(* A context c holds the session object (c.self), the transport's state    *)
(* (c.client), the transport calls made so far by the running operation    *)
(* (c.tr), the exception raised, if any (c.exc) and the value returned     *)
(* (c.ret).  A call of a method runs to completion in one step; its        *)
(* outcome is recorded in the variable last, together with the session as  *)
(* it was before the call, until the caller resumes.                       *)
(***************************************************************************)
EXTENDS Integers, Sequences, FiniteSets, TLC

VARIABLES
    self,    \* the AsyncClient object's fields
    client,  \* the transport behind self.client
    last,    \* the outcome of the call that has just run, or Idle
    calls,   \* how many calls the caller has made
    tasks    \* the tasks that share the session: where each one is in its
             \* command, and the device's command registers

vars == <<self, client, last, calls, tasks>>

(***************************************************************************)
(* Bytes.  A bytearray is a sequence of integers in 0..255; a str is a     *)
(* sequence of code points.                                                *)
(***************************************************************************)
Min(a, b) == IF a < b THEN a ELSE b

\* Python's b[i:j] for 0 <= i.
Slice(b, i, j) == SubSeq(b, i + 1, Min(j, Len(b)))

\* int.from_bytes(b, 'big')
RECURSIVE from_bytes_big(_)
from_bytes_big(b) ==
    IF b = <<>> THEN 0
    ELSE from_bytes_big(SubSeq(b, 1, Len(b) - 1)) * 256 + b[Len(b)]

\* int.to_bytes(n, length, 'big'), for 0 <= n < 256^length
RECURSIVE to_bytes_big(_, _)
to_bytes_big(n, length) ==
    IF length = 0 THEN <<>>
    ELSE Append(to_bytes_big(n \div 256, length - 1), n % 256)

\* bytearray(n): n zero bytes
Zeros(n) == [i \in 1..n |-> 0]

\* str.encode('ascii') succeeds iff every code point is below 128
IsAscii(str) == \A i \in DOMAIN str : str[i] < 128

(***************************************************************************)
(* The characteristic registry.                                            *)
(***************************************************************************)
CHARACTERISTICS == [
    battery_level       |-> "00002a19-0000-1000-8000-00805f9b34fb",
    firmware_revision   |-> "00002a26-0000-1000-8000-00805f9b34fb",
    device_name         |-> "00002a00-0000-1000-8000-00805f9b34fb",
    event_data          |-> "f1196f51-71a4-11e6-bdf4-0800200c9a66",
    accelerometer_data  |-> "f1196f51-71a4-11e6-bdf4-0800200c9a66",
    facet               |-> "f1196f52-71a4-11e6-bdf4-0800200c9a66",
    command_result      |-> "f1196f53-71a4-11e6-bdf4-0800200c9a66",
    command_input       |-> "f1196f54-71a4-11e6-bdf4-0800200c9a66",
    double_tap          |-> "f1196f55-71a4-11e6-bdf4-0800200c9a66",
    calibration_version |-> "f1196f56-71a4-11e6-bdf4-0800200c9a66",
    system_state        |-> "f1196f56-71a4-11e6-bdf4-0800200c9a66",
    password_input      |-> "f1196f57-71a4-11e6-bdf4-0800200c9a66",
    history_data        |-> "f1196f58-71a4-11e6-bdf4-0800200c9a66" ]

CHARACTERISTIC_READ_LENGTHS == [
    battery_level       |-> 1,
    firmware_revision   |-> 20,
    device_name         |-> 20,
    event_data          |-> 20,
    accelerometer_data  |-> 6,
    facet               |-> 1,
    command_result      |-> 20,
    command_input       |-> 2,
    double_tap          |-> -1,
    system_state        |-> 4,
    calibration_version |-> 4,
    password_input      |-> -1,
    history_data        |-> 20 ]

CHARACTERISTIC_WRITE_LENGTHS == [
    battery_level       |-> -1,
    firmware_revision   |-> -1,
    device_name         |-> -1,
    event_data          |-> -1,
    accelerometer_data  |-> -1,
    facet               |-> -1,
    command_result      |-> -1,
    command_input       |-> 20,
    double_tap          |-> -1,
    system_state        |-> -1,
    calibration_version |-> 4,
    password_input      |-> 6,
    history_data        |-> 20 ]

\* _com(x): a bytearray of the opcode, or of the given bytes
COMMANDS == [
    history           |-> <<1>>,
    history_delete    |-> <<2>>,
    history_dump      |-> <<2>>,
    calibration_reset |-> <<3>>,
    lock_on           |-> <<4, 1>>,
    lock_off          |-> <<4, 2>>,
    auto_pause_set    |-> <<5>>,
    pause_on          |-> <<6, 1>>,
    pause_off         |-> <<6, 2>>,
    time_read         |-> <<7>>,
    time_write        |-> <<8>>,
    brightness_set    |-> <<9>>,
    blink_freq_set    |-> <<10>>,
    status            |-> <<16>>,
    color_set         |-> <<17>>,
    facet_write       |-> <<19>>,
    facet_read        |-> <<20>>,
    set_password      |-> <<48>> ]

\* '000000'
DEFAULT_PASSWORD == <<48, 48, 48, 48, 48, 48>>

(***************************************************************************)
(* Contexts.                                                               *)
(***************************************************************************)
Ctx(s, t) == [self |-> s, client |-> t, tr |-> <<>>, exc |-> "none", ret |-> "None"]

Raise(c, e) == [c EXCEPT !.exc = e]

Ret(c, v) == [c EXCEPT !.ret = v]

Raised(c) == c.exc # "none"

(***************************************************************************)
(* The transport: BleakClient.  An oracle o fixes, for one call of an      *)
(* operation, which of its transport calls fail (o.fails: their positions  *)
(* in the operation's sequence of transport calls) and what the device     *)
(* answers to its successive reads (o.rd).  Every call on a transport that *)
(* is not open fails.                                                      *)
(***************************************************************************)
NotifyUUIDs == { CHARACTERISTICS.facet, CHARACTERISTICS.event_data,
                 CHARACTERISTICS.history_data }

NoSubs == [u \in NotifyUUIDs |-> "none"]

NewClient(open) == [open |-> open, subs |-> NoSubs]

Fails(c, o) == (Len(c.tr) + 1) \in o.fails \/ ~c.client.open

Logged(c, call, uuid, data, ok) ==
    [c EXCEPT !.tr = Append(@, [call |-> call, uuid |-> uuid, data |-> data, ok |-> ok])]

NReads(tr) == Cardinality({i \in DOMAIN tr : tr[i].call = "read" /\ tr[i].ok})

read_gatt_char(c, o, uuid) ==
    LET k == NReads(c.tr) + 1
        data == IF k <= Len(o.rd) THEN o.rd[k] ELSE <<>>
    IN IF Fails(c, o)
       THEN Raise(Logged(c, "read", uuid, <<>>, FALSE), "BleakError")
       ELSE Ret(Logged(c, "read", uuid, data, TRUE), data)

write_gatt_char(c, o, uuid, data) ==
    IF Fails(c, o)
    THEN Raise(Logged(c, "write", uuid, data, FALSE), "BleakError")
    ELSE Ret(Logged(c, "write", uuid, data, TRUE), "None")

start_notify(c, o, uuid, handler) ==
    IF Fails(c, o)
    THEN Raise(Logged(c, "start_notify", uuid, <<>>, FALSE), "BleakError")
    ELSE LET d == Ret(Logged(c, "start_notify", uuid, <<>>, TRUE), "None")
         IN [d EXCEPT !.client.subs[uuid] = handler]

stop_notify(c, o, uuid) ==
    IF Fails(c, o)
    THEN Raise(Logged(c, "stop_notify", uuid, <<>>, FALSE), "BleakError")
    ELSE LET d == Ret(Logged(c, "stop_notify", uuid, <<>>, TRUE), "None")
         IN [d EXCEPT !.client.subs[uuid] = "none"]

client_disconnect(c, o) ==
    IF Fails(c, o)
    THEN Raise(Logged(c, "disconnect", "", <<>>, FALSE), "BleakError")
    ELSE LET d == Ret(Logged(c, "disconnect", "", <<>>, TRUE), "None")
         IN [d EXCEPT !.client = NewClient(FALSE)]

\* The transport calls of a trace that are of the given kind.
Calls(tr, call) == SelectSeq(tr, LAMBDA e : e.call = call)

(***************************************************************************)
(* The decorators.                                                         *)
(***************************************************************************)
\* The decorators without their checks.
requires_connection_unchecked(c, f) == f

requires_login_unchecked(c, f) == f

requires_connection(c, f) ==
    IF ~c.self.connected THEN Raise(c, "NotConnectedError") ELSE f

requires_login(c, f) ==
    IF ~c.self.logged THEN Raise(c, "NotLoggedInError") ELSE f

\* Sequencing: the rest of a method runs only if nothing was raised so far.
Then(c, f) == IF Raised(c) THEN c ELSE f

\* try: ... except: pass
Swallow(c) == [c EXCEPT !.exc = "none"]

\* The element of a one-element set.  Only({ e : r \in {x} }) is e with r
\* standing for x: the way a method names the outcome of a call it awaits.
Only(S) == CHOOSE x \in S : TRUE

(***************************************************************************)
(* The session object.  firmware_version is in hundredths (350 for 3.5),   *)
(* -1 for None; facet_callback is whether a user callback is stored; bound *)
(* maps each attribute that setup binds to the method it is bound to.      *)
(***************************************************************************)
Attrs == { "get_status", "set_paused", "set_lock", "set_auto_pause", "set_name",
           "set_password", "get_time", "set_time", "set_brightness",
           "set_blink_frequency", "set_color", "set_facet", "get_facet",
           "get_all_facets", "get_event", "get_history", "get_all_history",
           "get_calibration_version", "set_calibration_version" }

InitSelf == [
    logged                |-> FALSE,
    connected             |-> FALSE,
    facet_callback        |-> FALSE,
    facet_notify_active   |-> FALSE,
    event_notify_active   |-> FALSE,
    history_notify_active |-> FALSE,
    paused                |-> FALSE,
    locked                |-> FALSE,
    auto_pause_time       |-> 0,
    current_facet_value   |-> -1,
    firmware_version      |-> -1,
    bound                 |-> [a \in Attrs |-> "absent"] ]

(***************************************************************************)
(* Basic BLE actions.                                                      *)
(***************************************************************************)
connect(c, o) ==
    IF 1 \in o.fails
    THEN Raise(Logged([c EXCEPT !.client = NewClient(FALSE)], "connect", "", <<>>, FALSE),
               "BleakError")
    ELSE Ret(Logged([c EXCEPT !.client = NewClient(TRUE), !.self.connected = TRUE],
                    "connect", "", <<>>, TRUE), "None")

\* base_char_read returning what the transport returned, untrimmed.
base_char_read_untrimmed(c, o, characteristic) ==
    requires_connection(c,
        IF characteristic \notin DOMAIN CHARACTERISTICS
        THEN Raise(c, "ValueError")
        ELSE IF CHARACTERISTIC_READ_LENGTHS[characteristic] = -1
        THEN Raise(c, "ValueError")
        ELSE read_gatt_char(c, o, CHARACTERISTICS[characteristic]))

base_char_read(c, o, characteristic) ==
    requires_connection(c,
        IF characteristic \notin DOMAIN CHARACTERISTICS
        THEN Raise(c, "ValueError")
        ELSE IF CHARACTERISTIC_READ_LENGTHS[characteristic] = -1
        THEN Raise(c, "ValueError")
        ELSE Only({ Then(r, Ret(r, Slice(r.ret, 0, CHARACTERISTIC_READ_LENGTHS[characteristic])))
                    : r \in {read_gatt_char(c, o, CHARACTERISTICS[characteristic])} }))

\* base_char_write without the check of the write length.
base_char_write_any_length(c, o, characteristic, data) ==
    requires_connection(c,
        IF characteristic \notin DOMAIN CHARACTERISTICS
        THEN Raise(c, "ValueError")
        ELSE write_gatt_char(c, o, CHARACTERISTICS[characteristic], data))

base_char_write(c, o, characteristic, data) ==
    requires_connection(c,
        IF characteristic \notin DOMAIN CHARACTERISTICS
        THEN Raise(c, "ValueError")
        ELSE IF CHARACTERISTIC_WRITE_LENGTHS[characteristic] = -1
        THEN Raise(c, "ValueError")
        ELSE write_gatt_char(c, o, CHARACTERISTICS[characteristic], data))

(***************************************************************************)
(* Notifications.                                                          *)
(***************************************************************************)
register_notify_event_v4(c, o) ==
    requires_login(c,
        Only({ Then(r, Ret([r EXCEPT !.self.event_notify_active = TRUE], "None"))
               : r \in {start_notify(c, o, CHARACTERISTICS.event_data, "user")} }))

unregister_notify_event_v4(c, o) ==
    requires_login(c,
        Only({ Then(r, Ret([r EXCEPT !.self.event_notify_active = FALSE], "None"))
               : r \in {stop_notify(c, o, CHARACTERISTICS.event_data)} }))

register_notify_history_v4(c, o) ==
    requires_login(c,
        Only({ Then(r, Ret([r EXCEPT !.self.history_notify_active = TRUE], "None"))
               : r \in {start_notify(c, o, CHARACTERISTICS.history_data, "user")} }))

unregister_notify_history_v4(c, o) ==
    requires_login(c,
        Only({ Then(r, Ret([r EXCEPT !.self.history_notify_active = FALSE], "None"))
               : r \in {stop_notify(c, o, CHARACTERISTICS.history_data)} }))

register_notify_facet_v3(c, o) ==
    requires_login(c,
        Only({ Then(r, Ret([r EXCEPT !.self.facet_notify_active = TRUE], "None"))
               : r \in {start_notify(c, o, CHARACTERISTICS.facet, "user")} }))

unregister_notify_facet_v3(c, o) ==
    requires_login(c,
        Only({ Then(r, Ret([r EXCEPT !.self.facet_notify_active = FALSE], "None"))
               : r \in {stop_notify(c, o, CHARACTERISTICS.facet)} }))

(***************************************************************************)
(* disconnect.  c1, c2, c3: after each `if ...: await self.unregister_...`;*)
(* c4: after the guarded stop_notify.                                      *)
(***************************************************************************)
disconnect(c, o) ==
    requires_connection(c,
        Only({ Then(c1,
        Only({ Then(c2,
        Only({ Then(c3,
        Only({ Ret(Swallow(client_disconnect(c4, o)), "None")
          : c4 \in {IF c3.self.facet_callback
                    THEN Swallow(stop_notify(c3, o, CHARACTERISTICS.facet)) ELSE c3} }))
          : c3 \in {IF c2.self.history_notify_active
                    THEN unregister_notify_history_v4(c2, o) ELSE c2} }))
          : c2 \in {IF c1.self.event_notify_active
                    THEN unregister_notify_event_v4(c1, o) ELSE c1} }))
          : c1 \in {IF c.self.facet_notify_active
                    THEN unregister_notify_facet_v3(c, o) ELSE c} }))

(***************************************************************************)
(* Client basic characteristics.                                           *)
(***************************************************************************)
battery_level(c, o) ==
    requires_connection(c,
        Only({ Then(r, Ret(r, from_bytes_big(r.ret)))  \* one byte: either endianness
               : r \in {base_char_read(c, o, "battery_level")} }))

\* bytes.decode('ascii')
decode_ascii(r) == IF IsAscii(r.ret) THEN r ELSE Raise(r, "UnicodeDecodeError")

firmware_revision(c, o) ==
    requires_connection(c,
        Only({ Then(r, decode_ascii(r)) : r \in {base_char_read(c, o, "firmware_revision")} }))

device_name(c, o) ==
    requires_connection(c,
        Only({ Then(r, decode_ascii(r)) : r \in {base_char_read(c, o, "device_name")} }))

\* login with the flag set before the write is known to have succeeded.
login_flag_first(c, o, password) ==
    requires_connection(c,
        IF ~IsAscii(password)
        THEN Raise(c, "UnicodeEncodeError")
        ELSE Only({ IF Raised(w) THEN [w EXCEPT !.self.logged = TRUE]
                    ELSE Ret([w EXCEPT !.self.logged = TRUE], TRUE)
                    : w \in {base_char_write(c, o, "password_input", password)} }))

login(c, o, password) ==
    requires_connection(c,
        IF ~IsAscii(password)
        THEN Raise(c, "UnicodeEncodeError")
        ELSE Only({ Then(w, Ret([w EXCEPT !.self.logged = TRUE], TRUE))
                    : w \in {base_char_write(c, o, "password_input", password)} }))

current_facet(c, o, force) ==
    requires_login(c,
        IF force
        THEN Only({ Then(r, Ret([r EXCEPT !.self.current_facet_value = from_bytes_big(r.ret)],
                                from_bytes_big(r.ret)))
                    : r \in {base_char_read(c, o, "facet")} })
        ELSE Ret(c, c.self.current_facet_value))

(***************************************************************************)
(* The command codec.                                                      *)
(***************************************************************************)
\* The check without the comparison of the opcode: data[1] == 0x02 alone.
check_command_status_only(r, command) ==
    IF Len(r.ret) < 2 THEN Raise(r, "IndexError") ELSE Ret(r, r.ret[2] = 2)

\* data[0] == command[0] and data[1] == 0x02, on the context r of the read
check_command(r, command) ==
    IF Len(r.ret) < 1 \/ Len(command) < 1
    THEN Raise(r, "IndexError")
    ELSE IF r.ret[1] # command[1]
    THEN Ret(r, FALSE)
    ELSE IF Len(r.ret) < 2
    THEN Raise(r, "IndexError")
    ELSE Ret(r, r.ret[2] = 2)

write_command(c, o, command, check) ==
    requires_login(c,
        Only({ Then(w,
                   IF check
                   THEN Only({ Then(r, check_command(r, command))
                               : r \in {base_char_read(w, o, "command_input")} })
                   ELSE Ret(w, TRUE))
               : w \in {base_char_write(c, o, "command_input", command)} }))

\* write_command_and_read_output without the test of went_ok.
write_command_and_read_output_regardless(c, o, command, check) ==
    requires_login(c,
        Only({ Then(w, base_char_read(w, o, "command_result"))
               : w \in {write_command(c, o, command, check)} }))

write_command_and_read_output(c, o, command, check) ==
    requires_login(c,
        Only({ Then(w,
                   IF ~w.ret
                   THEN Raise(w, "TimeFlipCommandError")
                   ELSE base_char_read(w, o, "command_result"))
               : w \in {write_command(c, o, command, check)} }))

(***************************************************************************)
(* Version 4 commands.                                                     *)
(***************************************************************************)
\* An integer too wide for the checker's integers is held as its base-256
\* digits, most significant first and without leading zeros (0 is <<>>).
RECURSIVE strip_zeros(_)
strip_zeros(b) ==
    IF b = <<>> THEN <<>> ELSE IF b[1] = 0 THEN strip_zeros(Tail(b)) ELSE b

reversed(b) == [i \in 1..Len(b) |-> b[Len(b) + 1 - i]]

\* int.from_bytes(b, 'big'), wide
wide_from_bytes_big(b) == strip_zeros(b)

\* int.from_bytes(b, 'little'), wide
wide_from_bytes_little(b) == strip_zeros(reversed(b))

set_color_v4(c, o, facet, rgb) ==
    requires_login(c,
        Only({ Then(w, Ret(w, "None"))
               : w \in {write_command(c, o,
                            <<COMMANDS.color_set[1], facet, rgb[1], rgb[2], rgb[3]>>, TRUE)} }))

\* command[0] = COMMANDS['time_read'] assigns a bytearray, which _com made,
\* to one item of a bytearray: TypeError, before any transport call.
get_time_v4(c, o) == requires_login(c, Raise(c, "TypeError"))

\* command[0] = COMMANDS['time_write']: TypeError as in get_time_v4.
set_time_v4(c, o, time) == requires_login(c, Raise(c, "TypeError"))
\* int.to_bytes(n, length, 'big') of a wide n below 256**length
wide_to_bytes_big(n, length) == Zeros(length - Len(n)) \o n

\* b[i:j] = v on a bytearray, for 0 <= i <= j <= len(b)
slice_assign(b, i, j, v) == SubSeq(b, 1, i) \o v \o SubSeq(b, j + 1, Len(b))

\* pomodoro is wide.  command[3:6] names 3 bytes and receives 4.
set_facet_v4(c, o, facet, mode, pomodoro) ==
    requires_login(c,
        IF facet \notin 0..255 \/ mode \notin 0..255 THEN Raise(c, "ValueError")
        ELSE IF Len(pomodoro) > 4 THEN Raise(c, "OverflowError")
        ELSE Only({ Then(w, Ret(w, "None"))
                    : w \in {write_command(c, o,
                                 slice_assign(<<COMMANDS.facet_write[1], facet, mode, 0, 0, 0, 0>>,
                                              3, 6, wide_to_bytes_big(pomodoro, 4)),
                                 TRUE)} }))
\* The tuple with the duration read as the other fields are: big-endian.
history_tuple_big_endian(data) ==
    << from_bytes_big(Slice(data, 0, 4)),
       data[5],
       wide_from_bytes_big(Slice(data, 5, 13)),
       wide_from_bytes_big(Slice(data, 13, 18)) >>

\* (event number, facet, timestamp of flip, duration of flip)
history_tuple(data) ==
    << from_bytes_big(Slice(data, 0, 4)),
       data[5],
       wide_from_bytes_big(Slice(data, 5, 13)),
       wide_from_bytes_little(Slice(data, 13, 18)) >>

\* The tuple get_history_v4 returns, on the context r of the read.
history_entry(r) ==
    IF Len(r.ret) < 5 THEN Raise(r, "IndexError") ELSE Ret(r, history_tuple(r.ret))

get_history_v4(c, o, event_num) ==
    requires_login(c,
        Only({ Then(w, Only({ Then(r, history_entry(r))
                              : r \in {base_char_read(w, o, "history_data")} }))
               : w \in {base_char_write(c, o, "history_data",
                                        <<1>> \o to_bytes_big(event_num, 4))} }))

\* The loop of get_all_history_v4: event_number and history_blocks are its
\* variables.
RECURSIVE all_history_loop(_, _, _, _)
all_history_loop(c, o, event_number, history_blocks) ==
    Only({ Then(w,
        Only({ Then(r,
                   IF Slice(r.ret, 0, 17) = Zeros(17)
                   THEN Ret(r, history_blocks)
                   ELSE IF Len(r.ret) < 5
                   THEN Raise(r, "IndexError")
                   ELSE all_history_loop(r, o, event_number + 1,
                                         Append(history_blocks, history_tuple(r.ret))))
               : r \in {base_char_read(w, o, "history_data")} }))
           : w \in {base_char_write(c, o, "history_data",
                                    <<2>> \o to_bytes_big(event_number, 4))} })

\* get_all_history_v4 with event_number = 1 before the loop.
get_all_history_v4_from_one(c, o) ==
    requires_login(c, all_history_loop(c, o, 1, <<>>))
get_all_history_v4(c, o) ==
    requires_login(c, all_history_loop(c, o, 0, <<>>))

(***************************************************************************)
(* Version 3 commands.                                                     *)
(***************************************************************************)
\* The dict get_status_v3 returns, on the context r of the read.
status_dict(r) ==
    IF Len(r.ret) < 1
    THEN Raise(r, "IndexError")
    ELSE IF r.ret[1] = 1
    THEN Ret(r, [locked |-> TRUE, paused |-> TRUE, auto_pause_time |-> 0])
    ELSE IF Len(r.ret) < 2
    THEN Raise(r, "IndexError")
    ELSE Ret(r, [locked |-> FALSE,
                 paused |-> r.ret[2] = 1,
                 auto_pause_time |-> from_bytes_big(Slice(r.ret, 2, 4))])

get_status_v3(c, o) ==
    requires_login(c,
        Only({ Then(r, status_dict(r))
               : r \in {write_command_and_read_output(c, o, COMMANDS.status, FALSE)} }))

get_calibration_version_v3(c, o) ==
    requires_login(c,
        Only({ Then(r, Ret(r, from_bytes_big(r.ret)))
               : r \in {base_char_read(c, o, "calibration_version")} }))

\* version, which may exceed the integers of the model checker, is given by
\* its base-256 digits, most significant first and without leading zeros: it
\* is at least 2**32 iff it has more than 4 digits, and its 4 big-endian
\* bytes are the digits after leading zeros.
\* The method passes the characteristic's uuid, not its name, to base_char_write.
set_calibration_version_v3(c, o, version) ==
    requires_login(c,
        IF Len(version) > 4
        THEN Raise(c, "ValueError")
        ELSE base_char_write(c, o, CHARACTERISTICS.calibration_version,
                             Zeros(4 - Len(version)) \o version))

\* set_paused_v3 without `force or`: the command is sent only on a change.
set_paused_v3_unforced(c, o, state, force) ==
    requires_login(c,
        IF state # c.self.paused
        THEN Only({ Then(w, Ret([w EXCEPT !.self.paused = state], state))
                    : w \in {write_command(c, o,
                                 IF state THEN COMMANDS.pause_on ELSE COMMANDS.pause_off,
                                 TRUE)} })
        ELSE Ret(c, c.self.paused))

set_paused_v3(c, o, state, force) ==
    requires_login(c,
        IF force \/ state # c.self.paused
        THEN Only({ Then(w, Ret([w EXCEPT !.self.paused = state], state))
                    : w \in {write_command(c, o,
                                 IF state THEN COMMANDS.pause_on ELSE COMMANDS.pause_off,
                                 TRUE)} })
        ELSE Ret(c, c.self.paused))

set_lock_v3(c, o, state, force) ==
    requires_login(c,
        IF force \/ state # c.self.locked
        THEN Only({ Then(w, Ret([w EXCEPT !.self.locked = state], state))
                    : w \in {write_command(c, o,
                                 IF state THEN COMMANDS.lock_on ELSE COMMANDS.lock_off,
                                 TRUE)} })
        ELSE Ret(c, c.self.locked))

\* set_auto_pause_v3 with > for >=.
set_auto_pause_v3_off_by_one(c, o, time) ==
    requires_login(c,
        IF time > 2^16
        THEN Raise(c, "ValueError")
        ELSE Only({ Then(w, Ret([w EXCEPT !.self.auto_pause_time = time], "None"))
                    : w \in {write_command(c, o, <<5>> \o to_bytes_big(time, 2), TRUE)} }))

set_auto_pause_v3(c, o, time) ==
    requires_login(c,
        IF time >= 2^16
        THEN Raise(c, "ValueError")
        ELSE Only({ Then(w, Ret([w EXCEPT !.self.auto_pause_time = time], "None"))
                    : w \in {write_command(c, o, <<5>> \o to_bytes_big(time, 2), TRUE)} }))

\* set_name_v3 with 20 for 19.
set_name_v3_off_by_one(c, o, name) ==
    requires_login(c,
        IF ~IsAscii(name)
        THEN Raise(c, "UnicodeEncodeError")
        ELSE IF Len(name) > 20
        THEN Raise(c, "ValueError")
        ELSE write_command(c, o, <<21, Len(name)>> \o name, TRUE))

set_name_v3(c, o, name) ==
    requires_login(c,
        IF ~IsAscii(name)
        THEN Raise(c, "UnicodeEncodeError")
        ELSE IF Len(name) > 19
        THEN Raise(c, "ValueError")
        ELSE write_command(c, o, <<21, Len(name)>> \o name, TRUE))

set_password_v3(c, o, password) ==
    requires_login(c,
        IF ~IsAscii(password)
        THEN Raise(c, "UnicodeEncodeError")
        ELSE IF Len(password) # 6
        THEN Raise(c, "ValueError")
        ELSE write_command(c, o, <<48>> \o password, TRUE))

(***************************************************************************)
(* history_v3.  The loop is history_loop: history_blocks and first_pack    *)
(* are its variables; <<-1>> stands for first_pack = None.                 *)
(***************************************************************************)
\* dx = data[i * 3:(i + 1) * 3]
sub_record(data, i) == Slice(data, i * 3, (i + 1) * 3)

\* (int(dx[2] >> 2), int.from_bytes(dxe, TIMEFLIP_ENDIANNESS), dx), where
\* dxe is dx with dxe[2] = ((dx[2] << 6) % 2**8) >> 6
history_package(dx) ==
    << dx[3] \div 4,
       from_bytes_big(<<dx[1], dx[2], ((dx[3] * 64) % 256) \div 64>>),
       dx >>

\* for i in range(7): dx[2] raises IndexError on a dx of less than 3 bytes
short_block(data) == \E i \in 0..6 : Len(sub_record(data, i)) < 3

decode_block(data) == [i \in 1..7 |-> history_package(sub_record(data, i - 1))]

\* num_blocks = int.from_bytes(first_pack, ...); return history_blocks[:num_blocks]
history_result(r, history_blocks, first_pack) ==
    IF first_pack = <<-1>>
    THEN Raise(r, "TypeError")
    ELSE Ret(r, Slice(history_blocks, 0, from_bytes_big(first_pack)))

RECURSIVE history_loop(_, _, _, _)
history_loop(c, o, history_blocks, first_pack) ==
    Only({ Then(r,
               IF r.ret = Zeros(21)
               THEN history_result(r, history_blocks, first_pack)
               ELSE IF short_block(r.ret)
               THEN Raise(r, "IndexError")
               ELSE history_loop(r, o, history_blocks \o decode_block(r.ret),
                                 Slice(r.ret, 0, 2)))
           : r \in {base_char_read(c, o, "command_result")} })

history_v3(c, o) ==
    requires_login(c,
        Only({ Then(w, history_loop(w, o, <<>>, <<-1>>))
               : w \in {write_command(c, o, COMMANDS.history, TRUE)} }))

\* def deprecated_function(self): called with nargs arguments after self
deprecated_function(c, nargs) ==
    IF nargs # 0 THEN Raise(c, "TypeError") ELSE Raise(c, "DeprecatedFunctionError")

(***************************************************************************)
(* The attributes setup binds, and a call through one of them.  a holds    *)
(* the call's arguments; a.n is how many there are.                        *)
(***************************************************************************)
CurrentTable == [
    get_status              |-> "get_status_v3",
    set_paused              |-> "set_paused_v3",
    set_lock                |-> "set_lock_v3",
    set_auto_pause          |-> "set_auto_pause_v3",
    set_name                |-> "set_name_v3",
    set_password            |-> "set_password_v3",
    get_time                |-> "get_time_v4",
    set_time                |-> "set_time_v4",
    set_brightness          |-> "set_brightness_v4",
    set_blink_frequency     |-> "set_blink_frequency_v4",
    set_color               |-> "set_color_v4",
    set_facet               |-> "set_facet_v4",
    get_facet               |-> "get_facet_v4",
    get_all_facets          |-> "get_all_facets_v4",
    get_event               |-> "get_event_v4",
    get_history             |-> "get_history_v4",
    get_all_history         |-> "get_all_history_v4",
    get_calibration_version |-> "deprecated_function",
    set_calibration_version |-> "deprecated_function" ]

LegacyTable == [
    get_status              |-> "get_status_v3",
    get_calibration_version |-> "get_calibration_version_v3",
    set_calibration_version |-> "set_calibration_version_v3" ]

\* self.<attr> = self.<method>, for every attribute of the table
Bind(bound, table) ==
    [a \in Attrs |-> IF a \in DOMAIN table THEN table[a] ELSE bound[a]]

CallMethod(c, o, method, a) ==
    CASE method = "get_status_v3" -> get_status_v3(c, o)
      [] method = "set_paused_v3" -> set_paused_v3(c, o, a.state, a.force)
      [] method = "set_lock_v3" -> set_lock_v3(c, o, a.state, a.force)
      [] method = "set_auto_pause_v3" -> set_auto_pause_v3(c, o, a.time)
      [] method = "set_name_v3" -> set_name_v3(c, o, a.name)
      [] method = "set_password_v3" -> set_password_v3(c, o, a.password)
      [] method = "set_color_v4" -> set_color_v4(c, o, a.facet, a.rgb)
      [] method = "get_time_v4" -> get_time_v4(c, o)
      [] method = "set_time_v4" -> set_time_v4(c, o, a.time)
      [] method = "set_facet_v4" -> set_facet_v4(c, o, a.facet, a.mode, a.pomodoro)
      [] method = "get_history_v4" -> get_history_v4(c, o, a.event_num)
      [] method = "get_all_history_v4" -> get_all_history_v4(c, o)
      [] method = "get_calibration_version_v3" -> get_calibration_version_v3(c, o)
      [] method = "set_calibration_version_v3" ->
             set_calibration_version_v3(c, o, a.version)
      [] method = "deprecated_function" -> deprecated_function(c, a.n)
      [] method = "absent" -> Raise(c, "AttributeError")

CallAttr(c, o, attr, a) == CallMethod(c, o, c.self.bound[attr], a)

(***************************************************************************)
(* setup.                                                                  *)
(***************************************************************************)
Digit(ch) == ch - 48

IsDigit(ch) == ch >= 48 /\ ch <= 57

\* float(str) in hundredths, for a str of the form d.dd; -1 stands for the
\* ValueError float raises on a str that is no number.
float100(str) ==
    IF Len(str) = 4 /\ IsDigit(str[1]) /\ str[2] = 46 /\ IsDigit(str[3]) /\ IsDigit(str[4])
    THEN 100 * Digit(str[1]) + 10 * Digit(str[3]) + Digit(str[4])
    ELSE -1

\* The firmware version from which the version 4 operations are bound: 3.47.
FirmwareThreshold == 347

\* self.firmware_version = ...; if self.firmware_version >= 3.47: ... else: ...
bind_version(c, fv) ==
    [c EXCEPT !.self.firmware_version = fv,
              !.self.bound = IF fv >= FirmwareThreshold
                             THEN Bind(@, CurrentTable)
                             ELSE Bind(@, LegacyTable)]

\* self.paused = current_status['paused']; ..., on the context r of get_status
store_status(r) ==
    [r EXCEPT !.self.paused = r.ret.paused,
              !.self.locked = r.ret.locked,
              !.self.auto_pause_time = r.ret.auto_pause_time]

\* r1: after firmware_revision; c3: after login; c5: after start_notify;
\* c6: after get_status; c8: after current_facet.
\* setup subscribing to the facet notifications before it logs in.
setup_notify_first(c, o, facet_callback, password) ==
    requires_connection(c,
        Only({ Then(r1,
            IF float100(Slice(r1.ret, 4, 8)) = -1 THEN Raise(r1, "ValueError") ELSE
        Only({ Then(c5,
        Only({ Then(c3,
            IF ~c3.ret THEN Raise(c3, "NotLoggedInError") ELSE
        Only({ Then(c6,
        Only({ Then(c8, Ret([c8 EXCEPT !.self.current_facet_value = c8.ret], "None"))
          : c8 \in {current_facet(store_status(c6), o, TRUE)} }))
          : c6 \in {CallAttr(c3, o, "get_status", [n |-> 0])} }))
          : c3 \in {login(c5, o, password)} }))
          : c5 \in {start_notify(
                        IF facet_callback THEN [r1 EXCEPT !.self.facet_callback = TRUE] ELSE r1,
                        o, CHARACTERISTICS.facet, "custom_facet_callback")} }))
          : r1 \in {Only({ bind_version(r, float100(Slice(r.ret, 4, 8)))
                           : r \in {firmware_revision(c, o)} })} }))
setup(c, o, facet_callback, password) ==
    requires_connection(c,
        Only({ Then(r1,
            IF float100(Slice(r1.ret, 4, 8)) = -1 THEN Raise(r1, "ValueError") ELSE
        Only({ Then(c3,
            IF ~c3.ret THEN Raise(c3, "NotLoggedInError") ELSE
        Only({ Then(c5,
        Only({ Then(c6,
        Only({ Then(c8, Ret([c8 EXCEPT !.self.current_facet_value = c8.ret], "None"))
          : c8 \in {current_facet(store_status(c6), o, TRUE)} }))
          : c6 \in {CallAttr(c5, o, "get_status", [n |-> 0])} }))
          : c5 \in {start_notify(
                        IF facet_callback THEN [c3 EXCEPT !.self.facet_callback = TRUE] ELSE c3,
                        o, CHARACTERISTICS.facet, "custom_facet_callback")} }))
          : c3 \in {login(bind_version(r1, float100(Slice(r1.ret, 4, 8))), o, password)} }))
          : r1 \in {firmware_revision(c, o)} }))

(***************************************************************************)
(* The delivery of a facet notification: the transport calls the handler   *)
(* that start_notify was last given for the characteristic.                *)
(***************************************************************************)
\* A call of a callback the user supplied.  The trace records the cached
\* facet at the time of the call; raises is whether the callback raises.
user_callback(c, raises) ==
    IF raises
    THEN Raise(Logged(c, "callback", "", <<c.self.current_facet_value>>, FALSE), "Exception")
    ELSE Ret(Logged(c, "callback", "", <<c.self.current_facet_value>>, TRUE), "None")

\* def custom_facet_callback(sender, data), the handler setup subscribes
custom_facet_callback(c, data, raises) ==
    Only({ IF u.self.facet_callback THEN user_callback(u, raises) ELSE Ret(u, "None")
           : u \in {[c EXCEPT !.self.current_facet_value = from_bytes_big(data)]} })

\* The transport calls the subscribed handler with the notified data.
notify_facet(c, data, raises) ==
    IF c.client.subs[CHARACTERISTICS.facet] = "custom_facet_callback"
    THEN custom_facet_callback(c, data, raises)
    ELSE user_callback(c, raises)

(***************************************************************************)
(* The inputs of the model: what callers pass and what the device answers. *)
(***************************************************************************)
\* '1234567' and a str that is not ASCII
Passwords == { DEFAULT_PASSWORD, <<49, 50, 51, 52, 53, 54, 55>>, <<233>> }

\* 'FW_v3.50', 'FW_v3.47', 'FW_v3.46', 'FW_vbeta'
FirmwareReads == { <<70, 87, 95, 118, 51, 46, 53, 48>>,
                   <<70, 87, 95, 118, 51, 46, 52, 55>>,
                   <<70, 87, 95, 118, 51, 46, 52, 54>>,
                   <<70, 87, 95, 118, 98, 101, 116, 97>> }

\* Answers to the status command: byte 0 locked, byte 1 paused, bytes 2-3 auto-pause.
StatusReads == { <<0, 0, 0, 0>>, <<0, 1, 1, 2>>, <<1, 0, 1, 2>>, <<1, 1, 0, 0>>, <<1>>, <<>> }

\* The highest facet the device reports.
MaxFacet == 3

FacetReads == { <<MaxFacet>>, <<MaxFacet - 1, 9>> }

\* What the device may leave in command_input after a frame was written:
\* accepted, refused, another opcode, trailing junk, one byte only, nothing.
ReadBacks(frame) ==
    LET op == IF frame = <<>> THEN 0 ELSE frame[1]
    IN { <<op, 2>>, <<op, 1>>, <<op + 1, 2>>, <<op, 2, 255>>, <<op>>, <<>> }

\* The same without the trailing junk and the empty answer.
Acks(frame) == { <<frame[1], 2>>, <<frame[1], 1>>, <<frame[1] + 1, 2>>, <<frame[1]>> }

Frames == { COMMANDS.pause_on, COMMANDS.status }

\* Answers read from command_result.
ResultReads == { <<0, 1, 1, 2>>, <<>>, [i \in 1..21 |-> i] }

NoFail == [fails |-> {}, rd |-> <<>>]

\* An oracle whose single failure, if any, is the k-th transport call (0: none).
Oracle(k, rd) == [fails |-> IF k = 0 THEN {} ELSE {k}, rd |-> rd]

(***************************************************************************)
(* The specification.  A call runs when the caller is not holding an       *)
(* outcome; Resume is the caller going on after it.                        *)
(***************************************************************************)
Idle == [op |-> "idle", a |-> [n |-> 0], pre |-> InitSelf, prec |-> NewClient(FALSE),
         tr |-> <<>>, exc |-> "none", ret |-> "None"]

\* The number of calls a caller makes on one session object.
MaxCalls == 4

\* The tasks that may call the session concurrently.
Tasks == {1, 2}

\* No task is inside a command; nothing was written to command_input yet.
NoTasks == [pc      |-> [t \in Tasks |-> "idle"],
            op      |-> [t \in Tasks |-> "none"],
            command |-> [t \in Tasks |-> <<>>],
            data    |-> [t \in Tasks |-> <<>>],
            device  |-> <<>>]

Init ==
    /\ self = InitSelf
    /\ client = NewClient(FALSE)
    /\ last = Idle
    /\ calls = 0
    /\ tasks = NoTasks

Start == Ctx(self, client)

\* The caller holds no outcome and has calls left to make.
Ready == last.op = "idle" /\ calls < MaxCalls

Done(op, a, c) ==
    /\ calls' = calls + 1
    /\ self' = c.self
    /\ client' = c.client
    /\ last' = [op |-> op, a |-> a, pre |-> self, prec |-> client,
                 tr |-> c.tr, exc |-> c.exc, ret |-> c.ret]
    /\ UNCHANGED tasks

\* A call of a versioned operation: through the attribute setup binds, or
\* of the method itself.
DoneVia(attr, method, a, o) ==
    \E via \in {"attr", "method"} :
        Done(attr, a @@ [via |-> via],
             IF via = "attr" THEN CallAttr(Start, o, attr, a)
             ELSE CallMethod(Start, o, method, a))

Resume ==
    /\ last.op # "idle"
    /\ last' = Idle
    /\ UNCHANGED <<self, client, calls, tasks>>

Connect ==
    /\ Ready
    /\ \E k \in 0..1 : Done("connect", [n |-> 0], connect(Start, Oracle(k, <<>>)))

Disconnect ==
    /\ Ready
    /\ \E f \in SUBSET (1..5) :
            Done("disconnect", [n |-> 0], disconnect(Start, [fails |-> f, rd |-> <<>>]))

Login ==
    /\ Ready
    /\ \E password \in Passwords, k \in 0..1 :
            Done("login", [n |-> 1, password |-> password],
                 login(Start, Oracle(k, <<>>), password))

Setup ==
    /\ Ready
    /\ \E facet_callback \in BOOLEAN, password \in {DEFAULT_PASSWORD, <<233>>},
           fw \in FirmwareReads, st \in StatusReads, fa \in FacetReads, k \in 0..6 :
            Done("setup", [n |-> 2, facet_callback |-> facet_callback, password |-> password],
                 setup(Start, Oracle(k, <<fw, st, fa>>), facet_callback, password))

BatteryLevel ==
    /\ Ready
    /\ \E k \in 0..1 :
            Done("battery_level", [n |-> 0], battery_level(Start, Oracle(k, << <<80>> >>)))

FirmwareRevision ==
    /\ Ready
    /\ \E fw \in FirmwareReads, k \in 0..1 :
            Done("firmware_revision", [n |-> 0], firmware_revision(Start, Oracle(k, <<fw>>)))

DeviceName ==
    /\ Ready
    /\ \E k \in 0..1 :
            Done("device_name", [n |-> 0],
                 device_name(Start, Oracle(k, << <<84, 105, 109, 101, 70, 108, 105, 112>> >>)))

\* The names callers pass: every name of the registry and one outside it.
CharacteristicNames == DOMAIN CHARACTERISTICS \cup {"nope"}

\* What the transport returns to a read: 3 bytes, and 22 bytes, more than any
\* read length of the registry.
TransportReads == { <<1, 2, 3>>, [i \in 1..22 |-> i] }

BaseCharRead ==
    /\ Ready
    /\ \E characteristic \in CharacteristicNames :
            \E o \in {Oracle(1, <<>>)} \cup {Oracle(0, <<rd>>) : rd \in TransportReads} :
                Done("base_char_read", [n |-> 1, characteristic |-> characteristic],
                     base_char_read(Start, o, characteristic))

BaseCharWrite ==
    /\ Ready
    /\ \E characteristic \in CharacteristicNames, k \in 0..1 :
            Done("base_char_write", [n |-> 2, characteristic |-> characteristic, data |-> <<1>>],
                 base_char_write(Start, Oracle(k, <<>>), characteristic, <<1>>))

CurrentFacet ==
    /\ Ready
    /\ \E force \in BOOLEAN, fa \in FacetReads, k \in 0..1 :
            Done("current_facet", [n |-> 1, force |-> force],
                 current_facet(Start, Oracle(k, <<fa>>), force))

WriteCommand ==
    /\ Ready
    /\ \E command \in Frames, check \in BOOLEAN, k \in 0..2 :
            \E rb \in ReadBacks(command) :
                Done("write_command", [n |-> 2, command |-> command, check |-> check],
                     write_command(Start, Oracle(k, <<rb>>), command, check))

WriteCommandAndReadOutput ==
    /\ Ready
    /\ \E command \in Frames, check \in BOOLEAN, k \in 0..3, st \in ResultReads :
            \E rb \in ReadBacks(command) :
                Done("write_command_and_read_output",
                     [n |-> 2, command |-> command, check |-> check],
                     write_command_and_read_output(
                         Start, Oracle(k, IF check THEN <<rb, st>> ELSE <<st>>), command, check))

RegisterNotifyEvent ==
    /\ Ready
    /\ \E k \in 0..1 :
            Done("register_notify_event", [n |-> 1], register_notify_event_v4(Start, Oracle(k, <<>>)))

UnregisterNotifyEvent ==
    /\ Ready
    /\ \E k \in 0..1 :
            Done("unregister_notify_event", [n |-> 0],
                 unregister_notify_event_v4(Start, Oracle(k, <<>>)))

RegisterNotifyHistory ==
    /\ Ready
    /\ \E k \in 0..1 :
            Done("register_notify_history", [n |-> 1],
                 register_notify_history_v4(Start, Oracle(k, <<>>)))

UnregisterNotifyHistory ==
    /\ Ready
    /\ \E k \in 0..1 :
            Done("unregister_notify_history", [n |-> 0],
                 unregister_notify_history_v4(Start, Oracle(k, <<>>)))

RegisterNotifyFacet ==
    /\ Ready
    /\ \E k \in 0..1 :
            Done("register_notify_facet", [n |-> 1], register_notify_facet_v3(Start, Oracle(k, <<>>)))

UnregisterNotifyFacet ==
    /\ Ready
    /\ \E k \in 0..1 :
            Done("unregister_notify_facet", [n |-> 0],
                 unregister_notify_facet_v3(Start, Oracle(k, <<>>)))

GetStatus ==
    /\ Ready
    /\ \E st \in StatusReads, k \in 0..2 :
            DoneVia("get_status", "get_status_v3", [n |-> 0], Oracle(k, <<st>>))

SetPaused ==
    /\ Ready
    /\ \E state \in BOOLEAN, force \in BOOLEAN, k \in 0..2 :
            \E rb \in Acks(COMMANDS.pause_on) :
                DoneVia("set_paused", "set_paused_v3",
                        [n |-> 2, state |-> state, force |-> force], Oracle(k, <<rb>>))

SetLock ==
    /\ Ready
    /\ \E state \in BOOLEAN, force \in BOOLEAN, k \in 0..2 :
            \E rb \in Acks(COMMANDS.lock_on) :
                DoneVia("set_lock", "set_lock_v3",
                        [n |-> 2, state |-> state, force |-> force], Oracle(k, <<rb>>))

\* 0x0102 minutes, and the first value that does not fit two bytes
AutoPauseTimes == { 0, 258, 2^16 }

SetAutoPause ==
    /\ Ready
    /\ \E time \in AutoPauseTimes, k \in 0..2 :
            \E rb \in Acks(COMMANDS.auto_pause_set) :
                DoneVia("set_auto_pause", "set_auto_pause_v3",
                        [n |-> 1, time |-> time], Oracle(k, <<rb>>))

\* The longest name callers pass.
MaxName == 20

\* 'a' * len
Names == { [i \in 1..len |-> 97] : len \in {2, MaxName - 1, MaxName} }

SetName ==
    /\ Ready
    /\ \E name \in Names, k \in 0..2 :
            \E rb \in Acks(<<21>>) :
                DoneVia("set_name", "set_name_v3", [n |-> 1, name |-> name], Oracle(k, <<rb>>))

SetPassword ==
    /\ Ready
    /\ \E password \in Passwords, k \in 0..2 :
            \E rb \in Acks(COMMANDS.set_password) :
                DoneVia("set_password", "set_password_v3",
                        [n |-> 1, password |-> password], Oracle(k, <<rb>>))

SetColor ==
    /\ Ready
    /\ \E k \in 0..2 :
            \E rb \in Acks(COMMANDS.color_set) :
                DoneVia("set_color", "set_color_v4",
                        [n |-> 2, facet |-> 1, rgb |-> <<255, 128, 0>>], Oracle(k, <<rb>>))

\* The facets the device notifies.
FacetNotifications == { <<MaxFacet>>, <<MaxFacet - 1>> }

NotifyFacet ==
    /\ Ready
    /\ client.open
    /\ client.subs[CHARACTERISTICS.facet] # "none"
    /\ \E data \in FacetNotifications, raises \in BOOLEAN :
            Done("notify_facet",
                 [n |-> 0, data |-> data, raises |-> raises],
                 notify_facet(Start, data, raises))

GetTime ==
    /\ Ready
    /\ \E k \in 0..1 :
            DoneVia("get_time", "get_time_v4", [n |-> 0], Oracle(k, << <<7, 0, 0, 1, 2>> >>))

\* Times 0, 2**24 + 2**16 + 2**8 + 1 and 2**32 - 1, as base-256 digits.
Times == { <<>>, <<1, 1, 1, 1>>, <<255, 255, 255, 255>> }

SetTime ==
    /\ Ready
    /\ \E time \in Times, k \in 0..1 :
            DoneVia("set_time", "set_time_v4", [n |-> 1, time |-> time], Oracle(k, <<>>))
\* Pomodoro limits 0, 300, 2**32 - 1 and 2**32, as base-256 digits.
Pomodoros == { <<>>, <<1, 44>>, <<255, 255, 255, 255>>, <<1, 0, 0, 0, 0>> }

SetFacet ==
    /\ Ready
    /\ \E facet \in {0, MaxFacet, 256}, mode \in {0, 1}, pomodoro \in Pomodoros, k \in 0..2 :
            \E rb \in { <<COMMANDS.facet_write[1], 2>>, <<COMMANDS.facet_write[1], 1>> } :
                DoneVia("set_facet", "set_facet_v4",
                        [n |-> 3, facet |-> facet, mode |-> mode, pomodoro |-> pomodoro],
                        Oracle(k, <<rb>>))
\* A 20-byte answer to a history request: event 7 on facet 3, with the
\* given 8 bytes of timestamp and 5 bytes of duration.
HistoryBlock(timestamp, duration) ==
    <<0, 0, 0, 7, 3>> \o timestamp \o duration \o <<0, 0>>

\* The end of the history: 17 zeros, then anything.
HistoryEnd == Zeros(17) \o <<1, 2, 3>>

\* Answers to a history request: durations 0A 00 00 00 00 and 00 00 00 00 0A,
\* the end of the history, a short answer.
HistoryReads == { HistoryBlock(Zeros(8), <<10, 0, 0, 0, 0>>),
                  HistoryBlock(<<1, 2, 3, 4, 5, 6, 7, 8>>, <<0, 0, 0, 0, 10>>),
                  HistoryEnd,
                  <<0, 0, 0, 7>> }

GetHistory ==
    /\ Ready
    /\ \E event_num \in {0, 7}, h \in HistoryReads, k \in 0..2 :
            DoneVia("get_history", "get_history_v4",
                    [n |-> 1, event_num |-> event_num], Oracle(k, <<h>>))

\* Answers to the successive requests of a read-out of the whole history.
AllHistoryReads ==
    { << HistoryBlock(Zeros(8), <<10, 0, 0, 0, 0>>), HistoryEnd >>,
      << HistoryBlock(Zeros(8), <<10, 0, 0, 0, 0>>),
         HistoryBlock(<<1, 2, 3, 4, 5, 6, 7, 8>>, <<0, 0, 0, 0, 10>>), HistoryEnd >>,
      << HistoryEnd >>,
      << HistoryBlock(Zeros(8), <<10, 0, 0, 0, 0>>) >> }

GetAllHistory ==
    /\ Ready
    /\ \E blocks \in AllHistoryReads, k \in {0, 2} :
            DoneVia("get_all_history", "get_all_history_v4",
                    [n |-> 0, blocks |-> blocks], Oracle(k, blocks))

GetCalibrationVersion ==
    /\ Ready
    /\ \E k \in 0..1 :
            DoneVia("get_calibration_version", "get_calibration_version_v3",
                    [n |-> 0], Oracle(k, << <<0, 0, 1, 2>> >>))

SetCalibrationVersion ==
    /\ Ready
    /\ \E version \in { <<1, 2>>, <<1, 0, 0, 0, 0>> }, k \in 0..1 :  \* 258 and 2**32
            DoneVia("set_calibration_version", "set_calibration_version_v3",
                    [n |-> 1, version |-> version], Oracle(k, <<>>))

\* A 21-byte block of 7 sub-records <<hi, lo, 13>>: facet 3, duration
\* 65536 * hi + 256 * lo + 1; its first two bytes read as a count are 256 * hi + lo.
DataBlock(hi, lo) == [i \in 1..21 |-> IF i % 3 = 1 THEN hi ELSE IF i % 3 = 2 THEN lo ELSE 13]

\* What the device answers to the successive reads of command_result after
\* the history command: data blocks, then the block of 21 zeros.
LegacyHistoryReads ==
    { << DataBlock(0, 2), Zeros(21) >>,
      << DataBlock(0, 2), DataBlock(0, 9), Zeros(21) >>,
      << Zeros(21) >> }

HistoryV3 ==
    /\ Ready
    /\ \E blocks \in LegacyHistoryReads, k \in {0, 3} :
            Done("history_v3", [n |-> 0, blocks |-> blocks],
                 history_v3(Start, Oracle(k, << <<1, 2>> >> \o blocks)))

Next ==
    \/ Resume
    \/ Connect
    \/ Disconnect
    \/ Login
    \/ Setup
    \/ BatteryLevel
    \/ FirmwareRevision
    \/ DeviceName
    \/ BaseCharRead
    \/ BaseCharWrite
    \/ CurrentFacet
    \/ WriteCommand
    \/ WriteCommandAndReadOutput
    \/ RegisterNotifyEvent
    \/ UnregisterNotifyEvent
    \/ RegisterNotifyHistory
    \/ UnregisterNotifyHistory
    \/ RegisterNotifyFacet
    \/ UnregisterNotifyFacet
    \/ GetStatus
    \/ SetPaused
    \/ SetLock
    \/ SetAutoPause
    \/ SetName
    \/ SetPassword
    \/ SetColor
    \/ GetTime
    \/ SetTime
    \/ SetFacet
    \/ GetHistory
    \/ GetCalibrationVersion
    \/ SetCalibrationVersion
    \/ HistoryV3
    \/ GetAllHistory
    \/ NotifyFacet

Spec == Init /\ [][Next]_vars

(***************************************************************************)
(* Two tasks on one logged-in session.  asyncio runs a coroutine until it  *)
(* awaits the transport and may run another task before resuming it: a    *)
(* step of a task is the code of a command operation from one await of a   *)
(* transport call to the next, the call included.  The device keeps the    *)
(* last frame written to command_input and answers the reads of            *)
(* command_input and command_result from it.                               *)
(***************************************************************************)
\* What command_input reads after a frame was written and accepted: the
\* frame's opcode, then the status code 0x02.
device_read_back(frame) == IF frame = <<>> THEN <<>> ELSE <<frame[1], 2>>

\* What command_result reads after a frame was written: the opcode, then
\* the bytes of the result.
device_result(frame) == IF frame = <<>> THEN <<>> ELSE <<frame[1], 0, 0, 1, 2>>

\* The frames a task sends: the tasks send different commands.
TaskFrames(t) == IF t = 1 THEN {COMMANDS.pause_on} ELSE {COMMANDS.lock_on, COMMANDS.status}

InitTasks ==
    /\ self = [InitSelf EXCEPT !.connected = TRUE, !.logged = TRUE]
    /\ client = NewClient(TRUE)
    /\ last = Idle
    /\ calls = 0
    /\ tasks = NoTasks

\* Task t calls write_command or write_command_and_read_output, which runs
\* up to its write of command_input.
TaskWrite(t) ==
    /\ tasks.pc[t] = "idle"
    /\ calls < MaxCalls
    /\ \E op \in {"write_command", "write_command_and_read_output"},
           command \in TaskFrames(t), check \in BOOLEAN :
            \E w \in {requires_login(Start,
                          base_char_write(Start, NoFail, "command_input", command))} :
                /\ ~Raised(w)
                /\ tasks' = [tasks EXCEPT
                                !.pc[t] = IF check THEN "check"
                                          ELSE IF op = "write_command" THEN "idle"
                                          ELSE "result",
                                !.op[t] = op,
                                !.command[t] = command,
                                !.data[t] = <<>>,
                                !.device = w.tr[1].data]
    /\ calls' = calls + 1
    /\ UNCHANGED <<self, client, last>>

\* Task t resumes in write_command: it reads command_input and compares.
TaskCheck(t) ==
    /\ tasks.pc[t] = "check"
    /\ \E r \in {base_char_read(Start, Oracle(0, <<device_read_back(tasks.device)>>),
                                 "command_input")} :
            \E went_ok \in {Then(r, check_command(r, tasks.command[t]))} :
                tasks' = [tasks EXCEPT
                             !.data[t] = r.ret,
                             !.pc[t] = IF /\ ~Raised(went_ok)
                                          /\ went_ok.ret
                                          /\ tasks.op[t] = "write_command_and_read_output"
                                       THEN "result" ELSE "idle"]
    /\ UNCHANGED <<self, client, last, calls>>

\* Task t resumes in write_command_and_read_output: it reads command_result.
TaskResult(t) ==
    /\ tasks.pc[t] = "result"
    /\ \E r \in {base_char_read(Start, Oracle(0, <<device_result(tasks.device)>>),
                                 "command_result")} :
            tasks' = [tasks EXCEPT !.data[t] = r.ret, !.pc[t] = "idle"]
    /\ UNCHANGED <<self, client, last, calls>>

NextTasks ==
    \E t \in Tasks :
        \/ TaskWrite(t)
        \/ TaskCheck(t)
        \/ TaskResult(t)

SpecTasks == InitTasks /\ [][NextTasks]_vars

(***************************************************************************)
(* The decoding of one sub-record of the legacy history, on its own: the   *)
(* body of history_v3's for loop applied to any 3 bytes.                   *)
(***************************************************************************)
\* Sub-records: every byte 2, and bytes 0 and 1 around the carries.
SubRecordInputs ==
    { <<b0, b1, b2>> : b0 \in {0, 3, 4, 255}, b1 \in {0, 255}, b2 \in 0..255 }

InitDecode ==
    /\ self = InitSelf
    /\ client = NewClient(FALSE)
    /\ calls = 0
    /\ tasks = NoTasks
    /\ \E dx \in SubRecordInputs :
            last = [Idle EXCEPT !.op = "sub_record", !.a = [n |-> 1, dx |-> dx]]

\* history_blocks.append((int(dx[2] >> 2), int.from_bytes(dxe, ...), dx))
DecodeSubRecord ==
    /\ last.op = "sub_record"
    /\ last' = [last EXCEPT !.op = "history_package", !.ret = history_package(last.a.dx)]
    /\ UNCHANGED <<self, client, calls, tasks>>

NextDecode == DecodeSubRecord

SpecDecode == InitDecode /\ [][NextDecode]_vars

(***************************************************************************)
(* Vocabulary of the properties.                                           *)
(***************************************************************************)
\* Operations decorated with requires_connection.
ConnectionGatedOps == { "disconnect", "base_char_read", "base_char_write", "battery_level",
                        "firmware_revision", "device_name", "login", "setup" }

\* Operations decorated with requires_login that are not bound by setup.
LoginGatedOps == { "current_facet", "write_command", "write_command_and_read_output",
                   "register_notify_event", "unregister_notify_event",
                   "register_notify_history", "unregister_notify_history",
                   "register_notify_facet", "unregister_notify_facet", "history_v3" }

\* Operations called through an attribute setup binds, or as the _v3/_v4 method.
VersionedOps == { "get_status", "set_paused", "set_lock", "set_auto_pause", "set_name",
                  "set_password", "get_time", "set_time", "set_color", "set_facet",
                  "get_history",
                  "get_all_history",
                  "get_calibration_version", "set_calibration_version" }

\* The last call was a call of a method decorated with requires_login.
ReachedLoginGated ==
    \/ last.op \in LoginGatedOps
    \/ /\ last.op \in VersionedOps
       /\ \/ last.a.via = "method"
          \/ last.pre.bound[last.op] \notin {"absent", "deprecated_function"}

\* The last call was a call of op's method method.
Reached(op, method) ==
    /\ last.op = op
    /\ (last.a.via = "method" \/ last.pre.bound[op] = method)

TransportOk(tr) == \A i \in DOMAIN tr : tr[i].ok

\* The answers read from command_result during the last call.
StatusAnswers(tr) ==
    SelectSeq(tr, LAMBDA e : e.call = "read" /\ e.ok
                             /\ e.uuid = CHARACTERISTICS.command_result)

\* The last call read a status answer whose byte 0 is 0x01.
StatusSaysLocked ==
    /\ Len(StatusAnswers(last.tr)) = 1
    /\ Len(StatusAnswers(last.tr)[1].data) >= 1
    /\ StatusAnswers(last.tr)[1].data[1] = 1

(***************************************************************************)
(* C1.  write_command(frame, check=True) on a logged-in session whose      *)
(* transport calls succeed writes the frame to command_input, then reads   *)
(* command_input, and makes no other transport call.  Whatever the         *)
(* read-back is, it returns true iff byte 0 of the read-back is frame[0]   *)
(* and byte 1 is 0x02; for a read-back with any other byte 1, or with byte *)
(* 1 = 0x02 and another byte 0, it returns false and does not raise.       *)
(***************************************************************************)
ReadBackAccepted(rb, frame) ==
    /\ Len(rb) >= 2
    /\ rb[1] = frame[1]
    /\ rb[2] = 2

C1_WriteCommandCheck ==
    (/\ last.op = "write_command"
     /\ last.a.check
     /\ last.pre.logged
     /\ TransportOk(last.tr))
    => /\ Len(last.tr) = 2
       /\ last.tr[1].call = "write"
       /\ last.tr[1].uuid = CHARACTERISTICS.command_input
       /\ last.tr[1].data = last.a.command
       /\ last.tr[2].call = "read"
       /\ last.tr[2].uuid = CHARACTERISTICS.command_input
       /\ (last.exc = "none" /\ last.ret = TRUE)
          <=> ReadBackAccepted(last.tr[2].data, last.a.command)
       /\ (/\ Len(last.tr[2].data) >= 2
           /\ ~ReadBackAccepted(last.tr[2].data, last.a.command))
          => (last.exc = "none" /\ last.ret = FALSE)

\* A verified command the device answered with [frame[0], 0x02, junk].
C1_Witness ==
    /\ last.op = "write_command"
    /\ last.a.check
    /\ Len(last.tr) = 2
    /\ last.tr[2].ok
    /\ last.tr[2].data = <<last.a.command[1], 2, 255>>
    /\ last.exc = "none"
    /\ last.ret = TRUE

(***************************************************************************)
(* C2 (as claimed).  After set_paused, set_lock or set_auto_pause the      *)
(* cached paused, locked or auto_pause_time changes only when the command  *)
(* was verified as accepted: the read-back of command_input was            *)
(* [frame[0], 0x02, ...].                                                  *)
(***************************************************************************)
CommandAccepted(tr) ==
    /\ Len(tr) = 2
    /\ tr[2].call = "read"
    /\ tr[2].ok
    /\ Len(tr[2].data) >= 2
    /\ tr[2].data[1] = tr[1].data[1]
    /\ tr[2].data[2] = 2

C2_CacheFollowsDevice ==
    (/\ last.op \in {"set_paused", "set_lock", "set_auto_pause"}
     /\ \/ self.paused # last.pre.paused
        \/ self.locked # last.pre.locked
        \/ self.auto_pause_time # last.pre.auto_pause_time)
    => CommandAccepted(last.tr)

(***************************************************************************)
(* C3.  On a logged-in session, set_paused(state, force) with state equal  *)
(* to the cached paused makes no transport call and changes nothing when   *)
(* force is false, and makes exactly one transport write, of the pause     *)
(* frame to command_input, when force is true; likewise set_lock and the   *)
(* cached locked.                                                          *)
(***************************************************************************)
SameStateCase(frame_on, frame_off) ==
    IF last.a.force
    THEN /\ Len(Calls(last.tr, "write")) = 1
         /\ last.tr[1].call = "write"
         /\ last.tr[1].uuid = CHARACTERISTICS.command_input
         /\ last.tr[1].data = (IF last.a.state THEN frame_on ELSE frame_off)
    ELSE /\ last.tr = <<>>
         /\ self = last.pre
         /\ last.exc = "none"
         /\ last.ret = last.a.state

C3_WriteOnlyIfForcedOrChanged ==
    /\ (/\ Reached("set_paused", "set_paused_v3")
        /\ last.pre.logged
        /\ last.a.state = last.pre.paused)
       => SameStateCase(COMMANDS.pause_on, COMMANDS.pause_off)
    /\ (/\ Reached("set_lock", "set_lock_v3")
        /\ last.pre.logged
        /\ last.a.state = last.pre.locked)
       => SameStateCase(COMMANDS.lock_on, COMMANDS.lock_off)

\* A forced pause of a session already paused.
C3_Witness ==
    /\ Reached("set_paused", "set_paused_v3")
    /\ last.pre.logged
    /\ last.pre.paused
    /\ last.a.state
    /\ last.a.force
    /\ Len(last.tr) = 2

(***************************************************************************)
(* C4 (as claimed).  After set_lock(True), a status read (get_status)      *)
(* whose answer has byte 0 = 0x01 leaves the cached paused true and the    *)
(* cached auto_pause_time 0.                                               *)
(***************************************************************************)
C4_StatusReadForcesCache ==
    (/\ Reached("get_status", "get_status_v3")
     /\ last.pre.locked
     /\ last.exc = "none"
     /\ StatusSaysLocked)
    => /\ self.paused
       /\ self.auto_pause_time = 0

(***************************************************************************)
(* C5.  A call of a method decorated with requires_login on a session      *)
(* whose logged is false raises NotLoggedInError, makes no transport call  *)
(* and leaves the session as it was.                                       *)
(***************************************************************************)
C5_LoginGate ==
    (ReachedLoginGated /\ ~last.pre.logged)
    => /\ last.exc = "NotLoggedInError"
       /\ last.tr = <<>>
       /\ self = last.pre

\* A command on a session that is connected but not logged in.
C5_Witness ==
    /\ last.op = "write_command"
    /\ last.pre.connected
    /\ ~last.pre.logged
    /\ last.exc = "NotLoggedInError"

(***************************************************************************)
(* C6 (as claimed).  Any operation other than connect, called while        *)
(* connected is false, raises NotConnectedError and makes no transport     *)
(* call.                                                                   *)
(***************************************************************************)
C6_AnyOperationNotConnected ==
    (/\ last.op \notin {"idle", "connect"}
     /\ last.op \in VersionedOps => last.a.via = "method"
     /\ ~last.pre.connected)
    => /\ last.exc = "NotConnectedError"
       /\ last.tr = <<>>

(***************************************************************************)
(* C6 (amended).  While connected is false, an operation decorated with    *)
(* requires_connection (disconnect, base_char_read, base_char_write,       *)
(* battery_level, firmware_revision, device_name, login, setup) raises     *)
(* NotConnectedError, makes no transport call and leaves the session as it *)
(* was; a login-gated operation called while connected and logged are both *)
(* false raises NotLoggedInError instead, also without a transport call.   *)
(***************************************************************************)
C6_ConnectionGate ==
    ~last.pre.connected
    => /\ last.op \in ConnectionGatedOps
          => /\ last.exc = "NotConnectedError"
             /\ last.tr = <<>>
             /\ self = last.pre
       /\ (ReachedLoginGated /\ ~last.pre.logged)
          => /\ last.exc = "NotLoggedInError"
             /\ last.tr = <<>>

\* disconnect on a session that never connected.
C6_Witness ==
    /\ last.op = "disconnect"
    /\ ~last.pre.connected
    /\ last.exc = "NotConnectedError"

(***************************************************************************)
(* C7.  login(password) on a connected session, the password being ASCII,  *)
(* makes one transport call, the write of the password to password_input;  *)
(* if the write succeeds logged is true and login returns, if it fails the *)
(* error propagates and logged is as before.  logged becomes true only in  *)
(* a call of login, alone or within setup, whose write of the password     *)
(* succeeded.                                                              *)
(***************************************************************************)
C7_LoggedOnlyAfterPasswordWrite ==
    /\ (/\ last.op = "login"
        /\ last.pre.connected
        /\ IsAscii(last.a.password))
       => /\ Len(last.tr) = 1
          /\ last.tr[1].call = "write"
          /\ last.tr[1].uuid = CHARACTERISTICS.password_input
          /\ last.tr[1].data = last.a.password
          /\ IF last.tr[1].ok
             THEN self.logged /\ last.exc = "none" /\ last.ret = TRUE
             ELSE last.exc = "BleakError" /\ self.logged = last.pre.logged
    /\ (/\ last.op # "idle"
        /\ self.logged
        /\ ~last.pre.logged)
       => /\ last.op \in {"login", "setup"}
          /\ \E i \in DOMAIN last.tr :
                /\ last.tr[i].call = "write"
                /\ last.tr[i].uuid = CHARACTERISTICS.password_input
                /\ last.tr[i].ok

\* A login whose write of the password failed.
C7_Witness ==
    /\ last.op = "login"
    /\ last.pre.connected
    /\ Len(last.tr) = 1
    /\ ~last.tr[1].ok
    /\ last.exc = "BleakError"
    /\ ~self.logged

(***************************************************************************)
(* C8 (as claimed).  After setup against firmware 3.47 or later, a         *)
(* v4-only operation (get_history, set_color) called through its bound     *)
(* attribute runs and reaches the transport, while get_calibration_version *)
(* () and set_calibration_version(version) raise DeprecatedFunctionError   *)
(* without a transport call.                                               *)
(***************************************************************************)
\* What a completed setup leaves: a firmware version, logged, a facet read.
SetupCompleted(s) ==
    /\ s.firmware_version # -1
    /\ s.logged
    /\ s.current_facet_value # -1

C8_CurrentOperationSet ==
    (/\ last.op \in VersionedOps
     /\ last.a.via = "attr"
     /\ SetupCompleted(last.pre)
     /\ last.pre.firmware_version >= FirmwareThreshold)
    => /\ last.op \in {"get_calibration_version", "set_calibration_version"}
          => /\ last.exc = "DeprecatedFunctionError"
             /\ last.tr = <<>>
       /\ (last.op \in {"get_history", "set_color"} /\ last.pre.logged)
          => /\ last.exc \notin {"AttributeError", "DeprecatedFunctionError", "TypeError"}
             /\ last.tr # <<>>

(***************************************************************************)
(* C9 (as claimed).  After setup completes against firmware below 3.47,    *)
(* set_paused, set_lock, set_auto_pause, set_name and set_password are     *)
(* bound, to the methods they are bound to after setup against firmware    *)
(* 3.47 or later.                                                          *)
(***************************************************************************)
SharedAttrs == { "set_paused", "set_lock", "set_auto_pause", "set_name", "set_password" }

C9_SharedOperationsBound ==
    (/\ last.op = "setup"
     /\ last.exc = "none"
     /\ self.firmware_version < FirmwareThreshold)
    => \A a \in SharedAttrs : self.bound[a] = CurrentTable[a]

(***************************************************************************)
(* C10 (as claimed).  disconnect on a connected session does not raise and *)
(* reaches the transport's disconnect, whichever of its transport calls    *)
(* fail.                                                                   *)
(***************************************************************************)
C10_DisconnectNeverRaises ==
    (last.op = "disconnect" /\ last.pre.connected)
    => /\ last.exc = "none"
       /\ \E i \in DOMAIN last.tr : last.tr[i].call = "disconnect"

(***************************************************************************)
(* C11 (as claimed).  After a completed setup and any register_* and       *)
(* unregister_*, disconnect, its transport calls succeeding, issues a      *)
(* stop_notify for every characteristic the session has a subscription on *)
(* at the transport, the facet subscription setup makes included, and      *)
(* issues it before the transport's disconnect.                            *)
(***************************************************************************)
UnsubscribedBeforeDisconnect(tr, uuid) ==
    \E i \in DOMAIN tr :
        /\ tr[i].call = "stop_notify"
        /\ tr[i].uuid = uuid
        /\ \A j \in DOMAIN tr : tr[j].call = "disconnect" => i < j

C11_DisconnectUnsubscribesAll ==
    (/\ last.op = "disconnect"
     /\ SetupCompleted(last.pre)
     /\ TransportOk(last.tr))
    => \A uuid \in NotifyUUIDs :
          last.prec.subs[uuid] # "none"
          => UnsubscribedBeforeDisconnect(last.tr, uuid)

(***************************************************************************)
(* C12 (as claimed).  After disconnect returns, connected and logged are   *)
(* false and facet_notify_active, event_notify_active and                  *)
(* history_notify_active are false.                                        *)
(***************************************************************************)
C12_DisconnectResetsSession ==
    (/\ last.op = "disconnect"
     /\ last.pre.connected
     /\ last.exc = "none")
    => /\ ~self.connected
       /\ ~self.logged
       /\ ~self.facet_notify_active
       /\ ~self.event_notify_active
       /\ ~self.history_notify_active

(***************************************************************************)
(* C13.  On a connected session base_char_read and base_char_write make a  *)
(* transport call, exactly one, on the characteristic's UUID, when the     *)
(* name is in the registry and its read (resp. write) length is not -1;    *)
(* for a name outside the registry and for a name whose relevant length is *)
(* -1 they raise ValueError and make no transport call.                    *)
(***************************************************************************)
Supported(name, lengths) ==
    /\ name \in DOMAIN CHARACTERISTICS
    /\ lengths[name] # -1

RegistryGate(lengths, call) ==
    IF Supported(last.a.characteristic, lengths)
    THEN /\ Len(last.tr) = 1
         /\ last.tr[1].call = call
         /\ last.tr[1].uuid = CHARACTERISTICS[last.a.characteristic]
    ELSE /\ last.exc = "ValueError"
         /\ last.tr = <<>>
         /\ self = last.pre

C13_RegistryGate ==
    /\ (last.op = "base_char_read" /\ last.pre.connected)
       => RegistryGate(CHARACTERISTIC_READ_LENGTHS, "read")
    /\ (last.op = "base_char_write" /\ last.pre.connected)
       => RegistryGate(CHARACTERISTIC_WRITE_LENGTHS, "write")

\* A write to 'facet': a name of the registry whose write length is -1.
C13_Witness ==
    /\ last.op = "base_char_write"
    /\ last.pre.connected
    /\ last.a.characteristic = "facet"
    /\ last.exc = "ValueError"
    /\ last.tr = <<>>

(***************************************************************************)
(* C14.  A base_char_read that returns returns the first min(len, readLen) *)
(* bytes of the len bytes the transport returned, readLen being the read   *)
(* length of the characteristic.                                           *)
(***************************************************************************)
Prefix(seq, n) == [i \in 1..(IF n < Len(seq) THEN n ELSE Len(seq)) |-> seq[i]]

C14_ReadTruncated ==
    (last.op = "base_char_read" /\ last.exc = "none")
    => /\ Len(last.tr) = 1
       /\ last.tr[1].ok
       /\ last.ret = Prefix(last.tr[1].data,
                            CHARACTERISTIC_READ_LENGTHS[last.a.characteristic])
       /\ Len(last.ret) <= CHARACTERISTIC_READ_LENGTHS[last.a.characteristic]

\* A read of 'command_result' (read length 20) the transport answered with 22 bytes.
C14_Witness ==
    /\ last.op = "base_char_read"
    /\ last.a.characteristic = "command_result"
    /\ last.exc = "none"
    /\ Len(last.tr[1].data) = 22
    /\ Len(last.ret) = 20

(***************************************************************************)
(* C15 (as claimed).  history_v3 on a logged-in session, the transport     *)
(* calls succeeding and the device answering the reads of command_result   *)
(* with one or more data blocks followed by the block of 21 zeros, reads   *)
(* command_result once per block, the block of zeros last, and returns     *)
(* without raising.                                                        *)
(***************************************************************************)
LegacyReadOut ==
    /\ last.op = "history_v3"
    /\ last.pre.logged
    /\ TransportOk(last.tr)
    /\ Len(last.a.blocks) >= 2

\* What the transport returned to the reads of command_result, in order.
ResultData(tr) == [i \in 1..Len(StatusAnswers(tr)) |-> StatusAnswers(tr)[i].data]

C15_LegacyHistoryTerminates ==
    LegacyReadOut
    => /\ last.exc = "none"
       /\ ResultData(last.tr) = last.a.blocks

(***************************************************************************)
(* C16 (as claimed).  In the same case history_v3 returns the sub-records  *)
(* of the data blocks, 7 per block in arrival order, truncated to the      *)
(* first N, N being the 16-bit big-endian value of the first two bytes of  *)
(* the first data block.                                                   *)
(***************************************************************************)
\* The sub-records of the data blocks: all blocks but the last, the zeros.
SubRecords(blocks) ==
    [i \in 1..(7 * (Len(blocks) - 1)) |->
        history_package(sub_record(blocks[((i - 1) \div 7) + 1], (i - 1) % 7))]

C16_LegacyHistoryCount ==
    LegacyReadOut
    => /\ last.exc = "none"
       /\ last.ret = Prefix(SubRecords(last.a.blocks),
                            256 * last.a.blocks[1][1] + last.a.blocks[1][2])

(***************************************************************************)
(* C17 (as claimed).  For an answer whose bytes 0-3 are 00 00 00 07, byte  *)
(* 4 is 03 and bytes 13-17 are 00 00 00 00 0A, whatever bytes 5-12 are,    *)
(* get_history returns event number 7, facet 3 and duration 10, and so     *)
(* does get_all_history for every such answer it returns an entry for.     *)
(***************************************************************************)
\* What the transport returned to the successful reads of uuid, in order.
DataRead(tr, uuid) ==
    [i \in 1..Len(SelectSeq(tr, LAMBDA e : e.call = "read" /\ e.ok /\ e.uuid = uuid)) |->
        SelectSeq(tr, LAMBDA e : e.call = "read" /\ e.ok /\ e.uuid = uuid)[i].data]

\* Bytes 0-3 are 00 00 00 07, byte 4 is 03, bytes 13-17 are the given ones.
Event7Facet3(data, duration_bytes) ==
    /\ Len(data) >= 18
    /\ SubSeq(data, 1, 5) = <<0, 0, 0, 7, 3>>
    /\ SubSeq(data, 14, 18) = duration_bytes

\* The entry is of event 7 on facet 3 with the given duration (its digits).
Decoded(entry, duration) ==
    /\ entry[1] = 7
    /\ entry[2] = 3
    /\ entry[4] = duration

HistoryCall(op, method) ==
    /\ Reached(op, method)
    /\ last.pre.logged
    /\ TransportOk(last.tr)
    /\ last.exc = "none"

\* Every answer with the given bytes 13-17 was decoded with the given duration.
DecodesAs(duration_bytes, duration) ==
    /\ HistoryCall("get_history", "get_history_v4")
       => (Event7Facet3(last.tr[2].data, duration_bytes)
           => Decoded(last.ret, duration))
    /\ HistoryCall("get_all_history", "get_all_history_v4")
       => \A i \in 1..Len(last.ret) :
             Event7Facet3(last.a.blocks[i], duration_bytes)
             => Decoded(last.ret[i], duration)

C17_DurationTen == DecodesAs(<<0, 0, 0, 0, 10>>, <<10>>)

(***************************************************************************)
(* C17 (amended).  The duration is little-endian: an answer whose bytes    *)
(* 0-3 are 00 00 00 07, byte 4 is 03 and bytes 13-17 are 0A 00 00 00 00 is *)
(* decoded by get_history and get_all_history as event number 7, facet 3   *)
(* and duration 10, whatever bytes 5-12 are, and one whose bytes 13-17 are *)
(* 00 00 00 00 0A as duration 10 * 2^32 (digits 0A 00 00 00 00).  In       *)
(* get_all_history an answer whose first 17 bytes are zero ends the        *)
(* read-out: the answers before it yield one entry each, it yields none,   *)
(* and nothing is read after it.                                           *)
(***************************************************************************)
C17_CurrentHistoryDecode ==
    /\ DecodesAs(<<10, 0, 0, 0, 0>>, <<10>>)
    /\ DecodesAs(<<0, 0, 0, 0, 10>>, <<10, 0, 0, 0, 0>>)
    /\ (/\ Reached("get_all_history", "get_all_history_v4")
        /\ last.pre.logged
        /\ TransportOk(last.tr)
        /\ SubSeq(last.a.blocks[Len(last.a.blocks)], 1, 17) = Zeros(17))
       => /\ last.exc = "none"
          /\ Len(last.ret) = Len(last.a.blocks) - 1
          /\ DataRead(last.tr, CHARACTERISTICS.history_data) = last.a.blocks

\* A read-out of two entries, of durations 0A 00 00 00 00 and 00 00 00 00 0A.
C17_Witness ==
    /\ HistoryCall("get_all_history", "get_all_history_v4")
    /\ Len(last.ret) = 2
    /\ Decoded(last.ret[1], <<10>>)
    /\ Decoded(last.ret[2], <<10, 0, 0, 0, 0>>)

(***************************************************************************)
(* C18.  On a logged-in session set_name with an ASCII name of 20 bytes or *)
(* more raises ValueError, makes no transport call and changes nothing;    *)
(* with a name of at most 19 bytes it writes [0x15, len(name), name...] to *)
(* command_input and returns the result of the verification of the         *)
(* read-back.                                                              *)
(***************************************************************************)
C18_NameLength ==
    (/\ Reached("set_name", "set_name_v3")
     /\ last.pre.logged
     /\ IsAscii(last.a.name))
    => IF Len(last.a.name) >= 20
       THEN /\ last.exc = "ValueError"
            /\ last.tr = <<>>
            /\ self = last.pre
       ELSE /\ Len(last.tr) >= 1
            /\ last.tr[1].call = "write"
            /\ last.tr[1].uuid = CHARACTERISTICS.command_input
            /\ last.tr[1].data = <<21, Len(last.a.name)>> \o last.a.name
            /\ (TransportOk(last.tr) /\ Len(last.tr[2].data) >= 2)
               => /\ last.exc = "none"
                  /\ last.ret = ReadBackAccepted(last.tr[2].data, last.tr[1].data)

\* A name of 20 bytes.
C18_Witness ==
    /\ Reached("set_name", "set_name_v3")
    /\ last.pre.logged
    /\ Len(last.a.name) = 20
    /\ last.exc = "ValueError"
    /\ last.tr = <<>>

(***************************************************************************)
(* C19.  set_password with a password whose length is not 6 and            *)
(* set_auto_pause with a time of 2^16 or more raise an error, ValueError   *)
(* on a logged-in session for an ASCII password, make no transport call    *)
(* and change nothing of the session.                                      *)
(***************************************************************************)
Rejected ==
    /\ last.exc # "none"
    /\ last.pre.logged => last.exc \in {"ValueError", "UnicodeEncodeError"}
    /\ last.tr = <<>>
    /\ self = last.pre

C19_RejectedBeforeTransport ==
    /\ (/\ Reached("set_password", "set_password_v3")
        /\ Len(last.a.password) # 6)
       => /\ Rejected
          /\ (last.pre.logged /\ IsAscii(last.a.password)) => last.exc = "ValueError"
    /\ (/\ Reached("set_auto_pause", "set_auto_pause_v3")
        /\ last.a.time >= 2^16)
       => /\ Rejected
          /\ last.pre.logged => last.exc = "ValueError"

\* A time of 2^16 on a logged-in session.
C19_Witness ==
    /\ Reached("set_auto_pause", "set_auto_pause_v3")
    /\ last.pre.logged
    /\ last.a.time = 2^16
    /\ last.exc = "ValueError"
    /\ last.tr = <<>>

ShortResultRead ==
    /\ DataRead(last.tr, CHARACTERISTICS.command_result) # <<>>
    /\ Len(DataRead(last.tr, CHARACTERISTICS.command_result)[1]) # 21

C21_ShortResultRaisesNotLoggedIn ==
    (/\ \/ last.op = "write_command_and_read_output"
        \/ Reached("get_status", "get_status_v3")
     /\ last.pre.connected
     /\ last.pre.logged
     /\ TransportOk(last.tr)
     /\ ShortResultRead)
    => last.exc = "NotLoggedInError"

(***************************************************************************)
(* C22.  For every facet and mode that fit a byte and every pomodoro limit *)
(* below 2^32, set_facet on a logged-in session writes to command_input    *)
(* the 7 bytes [0x13, facet, mode, p0, p1, p2, p3], p0..p3 being the limit *)
(* as a 32-bit big-endian integer.                                         *)
(***************************************************************************)
\* The 4 big-endian bytes of a wide integer below 2^32.
BigEndian32(n) == [i \in 1..4 |-> IF i <= 4 - Len(n) THEN 0 ELSE n[i - (4 - Len(n))]]

C22_SetFacetFrame ==
    (/\ Reached("set_facet", "set_facet_v4")
     /\ last.pre.connected
     /\ last.pre.logged
     /\ last.a.facet < 256
     /\ Len(last.a.pomodoro) <= 4
     /\ last.tr # <<>>
     /\ last.tr[1].ok)
    => /\ last.tr[1].call = "write"
       /\ last.tr[1].uuid = CHARACTERISTICS.command_input
       /\ last.tr[1].data = <<19, last.a.facet, last.a.mode>> \o BigEndian32(last.a.pomodoro)

(***************************************************************************)
(* C23.  On a logged-in session bound to the operations of the current     *)
(* firmware, get_time writes the frame [0x07] to command_input, reads      *)
(* command_result and returns bytes 1 to 4 of the answer as a big-endian   *)
(* integer; set_time(t), t < 2^32, writes the 5 bytes [0x08, t as 4        *)
(* big-endian bytes].                                                      *)
(***************************************************************************)
\* The last call went through an attribute that setup bound for the current firmware.
BoundToCurrent ==
    /\ last.a.via = "attr"
    /\ last.pre.firmware_version >= FirmwareThreshold

C23_TimeFrames ==
    /\ (/\ last.op = "get_time"
        /\ BoundToCurrent
        /\ last.pre.connected
        /\ last.pre.logged
        /\ TransportOk(last.tr))
       => /\ Len(last.tr) = 2
          /\ last.tr[1].call = "write"
          /\ last.tr[1].uuid = CHARACTERISTICS.command_input
          /\ last.tr[1].data = <<7>>
          /\ last.tr[2].call = "read"
          /\ last.tr[2].uuid = CHARACTERISTICS.command_result
          /\ last.exc = "none"
          /\ last.ret = wide_from_bytes_big(Slice(last.tr[2].data, 1, 5))
    /\ (/\ last.op = "set_time"
        /\ BoundToCurrent
        /\ last.pre.connected
        /\ last.pre.logged
        /\ TransportOk(last.tr))
       => /\ last.tr # <<>>
          /\ last.tr[1].call = "write"
          /\ last.tr[1].uuid = CHARACTERISTICS.command_input
          /\ last.tr[1].data = <<8>> \o BigEndian32(last.a.time)

(***************************************************************************)
(* C24.  After setup against firmware below 3.47, set_calibration_version  *)
(* of v < 2^32 makes one transport call, the write of the 4 big-endian     *)
(* bytes of v to calibration_version, and v >= 2^32 is rejected before any *)
(* transport call.                                                         *)
(***************************************************************************)
C24_CalibrationVersionWrite ==
    (/\ last.op = "set_calibration_version"
     /\ last.a.via = "attr"
     /\ SetupCompleted(last.pre)
     /\ last.pre.connected
     /\ last.pre.firmware_version < FirmwareThreshold
     /\ TransportOk(last.tr))
    => /\ Len(last.a.version) <= 4
          => /\ Len(last.tr) = 1
             /\ last.tr[1].call = "write"
             /\ last.tr[1].uuid = CHARACTERISTICS.calibration_version
             /\ last.tr[1].data = BigEndian32(last.a.version)
       /\ Len(last.a.version) > 4
          => /\ last.exc # "none"
             /\ last.tr = <<>>

(***************************************************************************)
(* C25.  In every reachable state, for each of the channels facet, event   *)
(* and history, the session's notification flag of the channel is set      *)
(* exactly when the transport holds a subscription of the session on the   *)
(* channel's characteristic.  It is stated of the states that follow a     *)
(* call that completed without an exception.                               *)
(***************************************************************************)
C25_FlagsMatchSubscriptions ==
    last.exc = "none"
    => /\ self.facet_notify_active <=> (client.subs[CHARACTERISTICS.facet] # "none")
       /\ self.event_notify_active <=> (client.subs[CHARACTERISTICS.event_data] # "none")
       /\ self.history_notify_active <=> (client.subs[CHARACTERISTICS.history_data] # "none")

(***************************************************************************)
(* C26.  setup on a connected session makes its transport calls in this    *)
(* order: the read of firmware_revision, the write of the password, the    *)
(* subscription to facet, the write of the status command and the read of  *)
(* its result, the read of facet.  The operations are bound before the     *)
(* password is written and the status is stored before facet is read.  It  *)
(* stops at the first step that fails, with an exception.  When it         *)
(* completes, all six calls were made and the cache holds the locked,      *)
(* paused and auto-pause values of the status answer and the facet read.   *)
(***************************************************************************)
SetupSteps ==
    << [call |-> "read", uuid |-> CHARACTERISTICS.firmware_revision],
       [call |-> "write", uuid |-> CHARACTERISTICS.password_input],
       [call |-> "start_notify", uuid |-> CHARACTERISTICS.facet],
       [call |-> "write", uuid |-> CHARACTERISTICS.command_input],
       [call |-> "read", uuid |-> CHARACTERISTICS.command_result],
       [call |-> "read", uuid |-> CHARACTERISTICS.facet] >>

\* The cache holds what the status answer d says.
CacheHoldsStatus(s, d) ==
    /\ s.locked = (d[1] = 1)
    /\ s.paused = (d[1] = 1 \/ d[2] = 1)
    /\ s.auto_pause_time = (IF d[1] = 1 THEN 0 ELSE 256 * d[3] + d[4])

C26_SetupOrder ==
    (last.op = "setup" /\ last.pre.connected)
    => /\ Len(last.tr) <= 6
       /\ \A i \in DOMAIN last.tr :
             /\ last.tr[i].call = SetupSteps[i].call
             /\ last.tr[i].uuid = SetupSteps[i].uuid
             /\ ~last.tr[i].ok => (i = Len(last.tr) /\ last.exc # "none")
       /\ Len(last.tr) >= 2
          => /\ self.firmware_version = float100(Slice(last.tr[1].data, 4, 8))
             /\ self.bound.get_status = "get_status_v3"
             /\ last.tr[2].data = last.a.password
       /\ Len(last.tr) >= 4 => last.tr[4].data = <<16>>
       /\ Len(last.tr) = 6 => CacheHoldsStatus(self, last.tr[5].data)
       /\ last.exc = "none"
          => /\ Len(last.tr) = 6
             /\ TransportOk(last.tr)
             /\ self.logged
             /\ client.subs[CHARACTERISTICS.facet] = "custom_facet_callback"
             /\ self.current_facet_value = last.tr[6].data[1]

\* A setup that completed on a device that is paused and not locked.
C26_Witness ==
    /\ last.op = "setup"
    /\ last.pre.connected
    /\ last.exc = "none"
    /\ Len(last.tr) = 6
    /\ last.tr[5].data = <<0, 1, 1, 2>>
    /\ self.auto_pause_time = 258

(***************************************************************************)
(* C27.  Every get_all_history on a logged-in session numbers its requests *)
(* 0, 1, 2, ... from 0, each request being one write to history_data       *)
(* followed by one read of it.  When the device answers n data blocks and  *)
(* then a block of 17 zero bytes, the read-out makes exactly n + 1         *)
(* round-trips, none after the zero block, and returns the n decoded       *)
(* entries in the order of the answers.                                    *)
(***************************************************************************)
\* The entry a 20-byte answer decodes to; timestamp and duration are wide.
EntryOf(b) ==
    << ((b[1] * 256 + b[2]) * 256 + b[3]) * 256 + b[4],
       b[5],
       strip_zeros(SubSeq(b, 6, 13)),
       strip_zeros(reversed(SubSeq(b, 14, 18))) >>

\* The answers are data blocks followed by one zero block.
EndsWithSentinel(blocks) ==
    /\ blocks # <<>>
    /\ \A i \in DOMAIN blocks :
          (SubSeq(blocks[i], 1, 17) = Zeros(17)) <=> (i = Len(blocks))

C27_FullReadOut ==
    (/\ Reached("get_all_history", "get_all_history_v4")
     /\ last.pre.connected
     /\ last.pre.logged)
    => /\ \A i \in DOMAIN last.tr :
             /\ last.tr[i].uuid = CHARACTERISTICS.history_data
             /\ i % 2 = 1
                => /\ last.tr[i].call = "write"
                   /\ Len(last.tr[i].data) = 5
                   /\ SubSeq(last.tr[i].data, 2, 5) = <<0, 0, 0, (i - 1) \div 2>>
             /\ i % 2 = 0 => last.tr[i].call = "read"
       /\ (TransportOk(last.tr) /\ EndsWithSentinel(last.a.blocks))
          => /\ Len(last.tr) = 2 * Len(last.a.blocks)
             /\ DataRead(last.tr, CHARACTERISTICS.history_data) = last.a.blocks
             /\ last.exc = "none"
             /\ Len(last.ret) = Len(last.a.blocks) - 1
             /\ \A i \in DOMAIN last.ret : last.ret[i] = EntryOf(last.a.blocks[i])

\* A read-out of two entries: three round-trips.
C27_Witness ==
    /\ Reached("get_all_history", "get_all_history_v4")
    /\ last.pre.logged
    /\ TransportOk(last.tr)
    /\ EndsWithSentinel(last.a.blocks)
    /\ Len(last.a.blocks) = 3
    /\ Len(last.tr) = 6
    /\ last.tr[5].data = <<2, 0, 0, 0, 2>>
    /\ Len(last.ret) = 2

(***************************************************************************)
(* C28.  Whenever a facet notification is delivered on a subscription the  *)
(* session made, by setup or by register_notify_facet, the cached current  *)
(* facet is the notified value by the time a callback of the user is       *)
(* called, and it is the notified value after the delivery, whether or not *)
(* a callback of the user is registered and whether or not it raises.      *)
(***************************************************************************)
C28_NotificationUpdatesCache ==
    last.op = "notify_facet"
    => /\ self.current_facet_value = last.a.data[1]
       /\ \A i \in DOMAIN last.tr :
             last.tr[i].call = "callback" => last.tr[i].data = last.a.data

(***************************************************************************)
(* C29.  When two tasks run command operations on one session, no other    *)
(* write to command_input happens between a command's write and the read   *)
(* of command_input or command_result that confirms it, so every such read *)
(* observes the answer to the frame its own operation wrote.               *)
(***************************************************************************)
C29_RoundTripsSerialized ==
    \A t \in Tasks :
        /\ tasks.pc[t] \in {"check", "result"} => tasks.device = tasks.command[t]
        /\ tasks.data[t] # <<>> => tasks.data[t][1] = tasks.command[t][1]

(***************************************************************************)
(* C30.  For every 3-byte sub-record (b0, b1, b2) of the legacy history,   *)
(* the decoder yields the facet b2 >> 2, a value in 0..63, and a duration  *)
(* made of bytes 0-1 and the low 2 bits of byte 2 only, which is below     *)
(* 2^18; the 6 facet bits of byte 2 do not contribute to the duration.     *)
(***************************************************************************)
C30_SubRecordDecode ==
    last.op = "history_package"
    => /\ last.ret[1] = last.a.dx[3] \div 4
       /\ last.ret[1] \in 0..63
       /\ last.ret[2] < 2^18
       /\ last.ret[2] = history_package(<<last.a.dx[1], last.a.dx[2], last.a.dx[3] % 4>>)[2]

(***************************************************************************)
(* C31.  Whatever the operation and whatever arguments its own validation  *)
(* accepts, every payload the session hands to the transport's write of a  *)
(* characteristic is no longer than the write length the registry declares *)
(* for that characteristic: 20 bytes for command_input and history_data, 6 *)
(* for password_input.  Two names of the registry share one identifier;    *)
(* the length is that of a name with the identifier written to.            *)
(***************************************************************************)
C31_WritesWithinDeclaredLength ==
    \A i \in DOMAIN last.tr :
        last.tr[i].call = "write"
        => \E name \in DOMAIN CHARACTERISTICS :
              /\ last.tr[i].uuid = CHARACTERISTICS[name]
              /\ Len(last.tr[i].data) <= CHARACTERISTIC_WRITE_LENGTHS[name]

====
